---- MODULE Spec2Model ----
(***************************************************************************)
(* A model of conex.py: the pipeline of main (fetch and sanitize, extract, *)
(* enhance, save) over parsed HTML documents.                              *)
(*                                                                         *)
(* A string is a sequence of characters (one-character strings; the token  *)
(* "U+00E9" stands for the single character e-acute, "TAB" for a tab).     *)
(* A document tree is the sequence of its elements in document order       *)
(* (pre-order), each with its depth below the document object: the subtree *)
(* of element i is the run of elements after i that are deeper than i.     *)
(* A Python value that may be None is a record [none, v].                  *)
(***************************************************************************)
EXTENDS Integers, Sequences, FiniteSets, TLC

VARIABLES pc, url, output, raw, sanitized, soup, removed, content_candidates,
          main_content, core_content, enhanced_content, output_path,
          stdout, files, exc, calls, fs_error

vars == <<pc, url, output, raw, sanitized, soup, removed, content_candidates,
          main_content, core_content, enhanced_content, output_path,
          stdout, files, exc, calls, fs_error>>

(* ----------------------------- bounds ---------------------------------- *)

\* the largest number of elements of a fetched document
MaxNodes == 3

\* the longest title drawn character by character
MaxTitleLen == 2

(* --------------------------- Python values ----------------------------- *)

NoneVal == [none |-> TRUE, v |-> <<>>]

Some(x) == [none |-> FALSE, v |-> x]

\* truth value of an optional string: None and "" are both false
TruthyStr(o) == ~o.none /\ o.v # <<>>

\* truth value of an optional document: a BeautifulSoup object is always true
TruthyDoc(o) == ~o.none

Range(s) == {s[i] : i \in 1..Len(s)}

Last(s) == s[Len(s)]

Min(a, b) == IF a <= b THEN a ELSE b

(* ------------------------------ strings -------------------------------- *)

UpperLetters == <<"A","B","C","D","E","F","G","H","I","J","K","L","M",
                  "N","O","P","Q","R","S","T","U","V","W","X","Y","Z">>

LowerLetters == <<"a","b","c","d","e","f","g","h","i","j","k","l","m",
                  "n","o","p","q","r","s","t","u","v","w","x","y","z">>

Digits == {"0","1","2","3","4","5","6","7","8","9"}

\* characters outside ASCII for which str.isalnum() is true
UnicodeAlnum == {"U+00E9"}

\* characters str.strip() removes
Whitespace == {" ", "TAB"}

UpperSet == Range(UpperLetters)

LowerSet == Range(LowerLetters)

\* the lower-case letter of each upper-case letter
LowerOf ==
    [c \in UpperSet |->
        LowerLetters[CHOOSE i \in 1..Len(UpperLetters) : UpperLetters[i] = c]]

\* str.lower(), one character
LowerChar(c) == IF c \in UpperSet THEN LowerOf[c] ELSE c

\* str.lower()
Lower(s) == [i \in 1..Len(s) |-> LowerChar(s[i])]

\* term in s
Contains(s, term) ==
    \E k \in 0..(Len(s) - Len(term)) :
        \A j \in 1..Len(term) : s[k + j] = term[j]

\* ' '.join(tokens)
RECURSIVE JoinSpace(_)
JoinSpace(tokens) ==
    IF tokens = <<>> THEN <<>>
    ELSE IF Len(tokens) = 1 THEN tokens[1]
    ELSE tokens[1] \o <<" ">> \o JoinSpace(Tail(tokens))

\* str.isalnum(), one character
IsAlnum(c) == c \in UpperSet \cup LowerSet \cup Digits \cup UnicodeAlnum

\* str.strip()
RECURSIVE LStrip(_)
LStrip(s) ==
    IF s # <<>> /\ Head(s) \in Whitespace THEN LStrip(Tail(s)) ELSE s

RECURSIVE RStrip(_)
RStrip(s) ==
    IF s # <<>> /\ Last(s) \in Whitespace
    THEN RStrip(SubSeq(s, 1, Len(s) - 1)) ELSE s

Strip(s) == RStrip(LStrip(s))

(* --------------------------- document trees ---------------------------- *)

\* an element: tag, id attribute, class attribute (its tokens), charset
\* attribute, own text, depth
Elem(tag, id, class, text) ==
    [tag |-> tag, id |-> id, class |-> class, charset |-> <<>>,
     text |-> text, depth |-> 1]

AtDepth(e, d) == [e EXCEPT !.depth = d]

\* the last element of the subtree of element i
SubtreeEnd(t, i) ==
    CHOOSE j \in i..Len(t) :
        /\ \A k \in (i + 1)..j : t[k].depth > t[i].depth
        /\ (j = Len(t) \/ t[j + 1].depth <= t[i].depth)

\* the subtree of element i, as a tree of its own (root at depth 1)
Subtree(t, i) ==
    [k \in 1..(SubtreeEnd(t, i) - i + 1) |->
        AtDepth(t[i + k - 1], t[i + k - 1].depth - t[i].depth + 1)]

\* the tree with the subtree of element i detached (extract / decompose)
Detach(t, i) ==
    SubSeq(t, 1, i - 1) \o SubSeq(t, SubtreeEnd(t, i) + 1, Len(t))

\* the tree with tree sub inserted below element p, after p's last child
AppendChild(t, p, sub) ==
    SubSeq(t, 1, SubtreeEnd(t, p))
    \o [k \in 1..Len(sub) |-> AtDepth(sub[k], sub[k].depth + t[p].depth)]
    \o SubSeq(t, SubtreeEnd(t, p) + 1, Len(t))

\* the tree with tree sub inserted below element p, before p's first child
InsertFirstChild(t, p, sub) ==
    SubSeq(t, 1, p)
    \o [k \in 1..Len(sub) |-> AtDepth(sub[k], sub[k].depth + t[p].depth)]
    \o SubSeq(t, p + 1, Len(t))

\* find_all(tags): the elements with one of the tags, in document order
RECURSIVE FindAllFrom(_, _, _)
FindAllFrom(t, tags, i) ==
    IF i > Len(t) THEN <<>>
    ELSE (IF t[i].tag \in tags THEN <<i>> ELSE <<>>) \o FindAllFrom(t, tags, i + 1)

FindAll(t, tags) == FindAllFrom(t, tags, 1)

\* find(tag) / soup.<tag>: the first element with the tag, 0 for None
Find(t, tag) ==
    IF FindAll(t, {tag}) = <<>> THEN 0 ELSE Head(FindAll(t, {tag}))

(* ------------------------------ sanitizer ------------------------------ *)

RemovableTags == {"script", "style", "iframe", "nav", "footer", "aside"}

\* the loop with each element detached without its subtree
RECURSIVE DecomposeAllShallow(_, _, _)
DecomposeAllShallow(t, targets, gone) ==
    IF targets = <<>> THEN gone
    ELSE DecomposeAllShallow(t, Tail(targets), gone \cup {Head(targets)})

\* the loop of decompose() calls over the list find_all returned: gone is the
\* set of elements (by their place in the parsed tree) destroyed so far;
\* decomposing an element that went with an earlier one changes nothing
RECURSIVE DecomposeAll(_, _, _)
DecomposeAll(t, targets, gone) ==
    IF targets = <<>> THEN gone
    ELSE DecomposeAll(t, Tail(targets),
                      gone \cup (Head(targets)..SubtreeEnd(t, Head(targets))))

\* the elements left after the pass, in order
RECURSIVE Keep(_, _, _)
Keep(t, gone, i) ==
    IF i > Len(t) THEN <<>>
    ELSE (IF i \in gone THEN <<>> ELSE <<t[i]>>) \o Keep(t, gone, i + 1)

Sanitize(t) == Keep(t, DecomposeAll(t, FindAll(t, RemovableTags), {}), 1)

(* ------------------------------ extractor ------------------------------ *)

CandidateTags == {"main", "article", "div"}

kwContent == <<"c","o","n","t","e","n","t">>

kwMain == <<"m","a","i","n">>

kwArticle == <<"a","r","t","i","c","l","e">>

kwPost == <<"p","o","s","t">>

kwEntry == <<"e","n","t","r","y">>

Terms == {kwContent, kwMain, kwArticle, kwPost, kwEntry}

IdScore == 3

ClassScore == 2

\* the id check without .lower()
IdMatchesCaseSensitive(e) ==
    e.id # <<>> /\ \E term \in Terms : Contains(e.id, term)

\* candidate.get('id') and any(term in candidate.get('id').lower() ...)
IdMatches(e) ==
    e.id # <<>>
    /\ LET id_lower == Lower(e.id) IN
       \E term \in Terms : Contains(id_lower, term)

\* candidate.get('class') and any(term in ' '.join(class).lower() ...)
ClassMatches(e) ==
    e.class # <<>>
    /\ LET class_str == Lower(JoinSpace(e.class)) IN
       \E term \in Terms : Contains(class_str, term)

\* one entry per element, the scores of the two checks summed
ScoreEntriesSummed(t, i) ==
    LET total == (IF IdMatches(t[i]) THEN IdScore ELSE 0)
                 + (IF ClassMatches(t[i]) THEN ClassScore ELSE 0)
    IN  IF total > 0 THEN <<[node |-> i, score |-> total]>> ELSE <<>>

\* the entries one element adds to content_candidates: the id check, then
\* the class check
ScoreEntries(t, i) ==
    (IF IdMatches(t[i]) THEN <<[node |-> i, score |-> IdScore]>> ELSE <<>>)
    \o (IF ClassMatches(t[i]) THEN <<[node |-> i, score |-> ClassScore]>> ELSE <<>>)

\* the for loop over main_candidates
RECURSIVE CollectCandidates(_, _)
CollectCandidates(t, main_candidates) ==
    IF main_candidates = <<>> THEN <<>>
    ELSE ScoreEntries(t, Head(main_candidates))
         \o CollectCandidates(t, Tail(main_candidates))

\* one entry put into a list already sorted by descending score, after the
\* entries that do not score less (a stable sort)
RECURSIVE InsertByScore(_, _)
InsertByScore(sorted, e) ==
    IF sorted = <<>> THEN <<e>>
    ELSE IF Head(sorted).score >= e.score
         THEN <<Head(sorted)>> \o InsertByScore(Tail(sorted), e)
         ELSE <<e>> \o sorted

\* list.sort(key=lambda x: x[1], reverse=True)
RECURSIVE SortByScoreDesc(_)
SortByScoreDesc(entries) ==
    IF entries = <<>> THEN <<>>
    ELSE InsertByScore(SortByScoreDesc(SubSeq(entries, 1, Len(entries) - 1)),
                       Last(entries))

\* the fallback taking the document's first element
FallbackFirstElement(t) == IF t = <<>> THEN 0 ELSE 1

\* the node chosen when no candidate was found
FallbackNode(t) == Find(t, "body")

\* the choice of main_content from the sorted candidates, 0 for None
SelectMain(t, sorted) ==
    IF sorted # <<>> THEN sorted[1].node ELSE FallbackNode(t)

\* BeautifulSoup('<html><head><meta charset="utf-8"></head><body></body></html>')
Skeleton ==
    << AtDepth(Elem("html", <<>>, <<>>, <<>>), 1),
       AtDepth(Elem("head", <<>>, <<>>, <<>>), 2),
       [AtDepth(Elem("meta", <<>>, <<>>, <<>>), 3)
            EXCEPT !.charset = <<"u","t","f","-","8">>],
       AtDepth(Elem("body", <<>>, <<>>, <<>>), 2) >>

\* extract_core_content(soup): the value returned, the exception raised, the
\* locals content_candidates (after the sort) and main_content, and the
\* source tree after the call
ExtractCoreContent(s) ==
    IF ~TruthyDoc(s)
    THEN [ret |-> NoneVal, exc |-> "none", content_candidates |-> <<>>,
          main_content |-> 0, soup |-> s]
    ELSE LET t      == s.v
             sorted == SortByScoreDesc(
                           CollectCandidates(t, FindAll(t, CandidateTags)))
             m      == SelectMain(t, sorted)
         IN  IF m = 0
             \* new_soup.body.append(None) raises ValueError
             THEN [ret |-> NoneVal, exc |-> "ValueError",
                   content_candidates |-> sorted, main_content |-> 0,
                   soup |-> s]
             \* append moves the node out of the source tree
             ELSE [ret |-> Some(AppendChild(Skeleton, Find(Skeleton, "body"),
                                            Subtree(t, m))),
                   exc |-> "none", content_candidates |-> sorted,
                   main_content |-> m, soup |-> Some(Detach(t, m))]

(* ------------------------------- enhancer ------------------------------ *)

\* the fixed style rules, as one token
StyleRules == <<"pre, code { ... } table, th, td { ... }">>

StyleTag == Elem("style", <<>>, <<>>, StyleRules)

\* enhance_content_preservation(soup): the value returned and the exception
EnhanceContentPreservation(s) ==
    IF ~TruthyDoc(s) THEN [ret |-> NoneVal, exc |-> "none"]
    ELSE LET t == s.v IN
         IF Find(t, "head") # 0
         THEN [ret |-> Some(AppendChild(t, Find(t, "head"), <<StyleTag>>)),
               exc |-> "none"]
         ELSE IF Find(t, "html") # 0
         THEN [ret |-> Some(InsertFirstChild(t, Find(t, "html"),
                       <<AtDepth(Elem("head", <<>>, <<>>, <<>>), 1),
                         AtDepth(StyleTag, 2)>>)),
               exc |-> "none"]
         \* soup.html is None
         ELSE [ret |-> NoneVal, exc |-> "AttributeError"]

(* -------------------------------- writer ------------------------------- *)

FileNameLimit == 50

DotHtml == <<".","h","t","m","l">>

\* the first place at or after from where s has one of chars, else Len(s) + 1
RECURSIVE FirstOf(_, _, _)
FirstOf(s, chars, from) ==
    IF from > Len(s) THEN Len(s) + 1
    ELSE IF s[from] \in chars THEN from
    ELSE FirstOf(s, chars, from + 1)

SchemeChars == UpperSet \cup LowerSet \cup Digits \cup {"+", "-", "."}

\* urlparse(url).netloc: what follows "scheme://" up to the next / ? or #
Netloc(u) ==
    LET i    == FirstOf(u, {":"}, 1)
        hasScheme ==
            /\ i > 1 /\ i <= Len(u)
            /\ u[1] \in UpperSet \cup LowerSet
            /\ \A k \in 1..(i - 1) : u[k] \in SchemeChars
        rest == IF hasScheme THEN SubSeq(u, i + 1, Len(u)) ELSE u
    IN  IF Len(rest) >= 2 /\ rest[1] = "/" /\ rest[2] = "/"
        THEN SubSeq(rest, 3, FirstOf(rest, {"/", "?", "#"}, 3) - 1)
        ELSE <<>>

\* title_tag.text: the text of the element and of its descendants
RECURSIVE TextFrom(_, _, _)
TextFrom(t, i, j) ==
    IF i > j THEN <<>> ELSE t[i].text \o TextFrom(t, i + 1, j)

Text(t, i) == TextFrom(t, i, SubtreeEnd(t, i))

\* the fallback title without the port (parsed_url.hostname)
FallbackTitleHostname(u) ==
    SubSeq(Netloc(u), 1, FirstOf(Netloc(u), {":"}, 1) - 1)

\* the title used when the document has no title element
FallbackTitle(u) == Netloc(u)

\* the title save_content_html derives
DeriveTitle(t, u) ==
    IF Find(t, "title") # 0 THEN Strip(Text(t, Find(t, "title")))
    ELSE FallbackTitle(u)

\* c if c.isalnum() or c in ' -_' else '_'
SafeChar(c) == IF IsAlnum(c) \/ c \in {" ", "-", "_"} THEN c ELSE "_"

\* safe_title without the cut
SafeTitleNoCut(title) == [i \in 1..Len(title) |-> SafeChar(title[i])]

\* safe_title: the characters made safe, then cut to the limit
SafeTitle(title) ==
    SubSeq([i \in 1..Len(title) |-> SafeChar(title[i])],
           1, Min(Len(title), FileNameLimit))

\* the path save_content_html writes to
ChoosePath(safe_title, out) ==
    IF ~TruthyStr(out) THEN safe_title \o DotHtml ELSE out.v

\* save_content_html(content, url, output_path), with the file system either
\* accepting the write or failing it: the value returned, the exception
\* raised and the files written
SaveContentHtml(content, u, out, disk_ok) ==
    IF ~TruthyDoc(content)
    THEN [ret |-> NoneVal, exc |-> "none", written |-> <<>>]
    ELSE LET path == ChoosePath(SafeTitle(DeriveTitle(content.v, u)), out)
         IN  IF disk_ok
             THEN [ret |-> Some(path), exc |-> "none",
                   written |-> <<[path |-> path, content |-> content.v]>>]
             \* open() raises OSError, which nothing catches
             ELSE [ret |-> NoneVal, exc |-> "OSError", written |-> <<>>]

(* ------------------------- documents and inputs ------------------------ *)

\* the depths of the elements of a tree of n elements, in document order: the
\* first element is at depth 1, each next one at most one deeper than the
\* element before it
RECURSIVE DepthSeqs(_)
DepthSeqs(n) ==
    IF n = 0 THEN {<<>>}
    ELSE { Append(c[1], c[2]) :
             c \in { c \in DepthSeqs(n - 1) \X (1..n) :
                       c[2] <= (IF c[1] = <<>> THEN 1 ELSE Last(c[1]) + 1) } }

\* the tree of the elements f at the depths d; the elements may nest in any
\* way (the lenient parser accepts any)
TreeOf(f, d) == [i \in 1..Len(d) |-> AtDepth(f[i], d[i])]

Plain(tag) == Elem(tag, <<>>, <<>>, <<>>)

\* <div id="Main-Content">
DivId == Elem("div", <<"M","a","i","n","-","C","o","n","t","e","n","t">>, <<>>, <<>>)

\* <div class="blog Post">
DivClass == Elem("div", <<>>, << <<"b","l","o","g">>, <<"P","o","s","t">> >>, <<>>)

\* <div id="content" class="entry">
DivBoth == Elem("div", kwContent, <<kwEntry>>, <<>>)

\* <div id="nav" class="po st">: neither attribute holds a keyword
DivNone == Elem("div", <<"n","a","v">>, << <<"p","o">>, <<"s","t">> >>, <<>>)

\* <section id="content">
SectionId == Elem("section", kwContent, <<>>, <<>>)

\* <title> News: </title>
TitleNews == Elem("title", <<>>, <<>>, <<" ","N","e","w","s",":"," ">>)

PipelineKinds ==
    {Plain("head"), TitleNews, Plain("body"), DivId, Plain("p"), Plain("script")}

ExtractKinds ==
    {Plain("body"), Plain("p"), Plain("article"), DivId, DivClass, DivBoth,
     DivNone, SectionId}

SanitizeKinds ==
    {Plain("body"), Plain("p"), DivId, Plain("script"), Plain("style"),
     Plain("nav"), Plain("aside")}

\* http://a.b:80/x
UrlPort == <<"h","t","t","p",":","/","/","a",".","b",":","8","0","/","x">>

\* https://c.d?q
UrlQuery == <<"h","t","t","p","s",":","/","/","c",".","d","?","q">>

\* a.b/x (no scheme)
UrlBare == <<"a",".","b","/","x">>

Urls == {UrlPort, UrlQuery, UrlBare}

\* out/o.html
PathGiven == <<"o","u","t","/","o",".","h","t","m","l">>

\* the -o option: absent, the empty string, a path
Outputs == {NoneVal, Some(<<>>), Some(PathGiven)}

TitleAlphabet == {"a", "Z", "5", " ", "-", "_", ":", "U+00E9", "TAB"}

RECURSIVE StringsOfLen(_)
StringsOfLen(n) ==
    IF n = 0 THEN {<<>>}
    ELSE { Append(s, c) : s \in StringsOfLen(n - 1), c \in TitleAlphabet }

\* Hello: World!/<script>
TitleHello == <<"H","e","l","l","o",":"," ","W","o","r","l","d","!","/","<",
                "s","c","r","i","p","t",">">>

\* a title of n characters
LongTitle(n) == [i \in 1..n |-> IF i % 7 = 0 THEN "/" ELSE "x"]

Titles ==
    UNION { StringsOfLen(n) : n \in 0..MaxTitleLen }
    \cup {TitleHello}
    \cup { LongTitle(n) : n \in (FileNameLimit - 1)..(FileNameLimit + 2) }

\* an enhanced extraction result whose content is <div><title>text</title></div>
TitledDoc(text) ==
    EnhanceContentPreservation(
        Some(AppendChild(Skeleton, Find(Skeleton, "body"),
             <<AtDepth(DivId, 1),
               AtDepth(Elem("title", <<>>, <<>>, text), 2)>>))).ret

\* an enhanced extraction result without a title element
UntitledDoc ==
    EnhanceContentPreservation(
        Some(AppendChild(Skeleton, Find(Skeleton, "body"),
             <<AtDepth(DivId, 1)>>))).ret

SaveDocs == { TitledDoc(text) : text \in Titles } \cup {UntitledDoc}

(* ------------------------------- messages ------------------------------ *)

MsgExtracting == "Extracting content from"

MsgErrorFetching == "Error fetching URL"

MsgFailedExtract == "Failed to extract content"

MsgFailedCore == "Failed to find core content"

MsgSaved == "Content successfully saved to"

MsgFailedSave == "Failed to save content"

StageFetch == "extract_web_content"

StageExtract == "extract_core_content"

StageEnhance == "enhance_content_preservation"

StageSave == "save_content_html"

(* ------------------------------- pipeline ------------------------------ *)

\* the state of main before its first statement, for given arguments
Blank ==
    /\ raw = NoneVal /\ sanitized = NoneVal /\ soup = NoneVal
    /\ removed = 0 /\ content_candidates = <<>> /\ main_content = 0
    /\ core_content = NoneVal /\ enhanced_content = NoneVal
    /\ output_path = NoneVal /\ stdout = <<>> /\ files = <<>>
    /\ exc = "none" /\ calls = <<>> /\ fs_error = FALSE

Init ==
    /\ pc = "start"
    /\ url \in {UrlPort, UrlBare}
    /\ output \in Outputs
    /\ Blank

\* main without the return after a failed fetch
MainFetchNoReturn ==
    /\ pc = "start"
    /\ calls' = Append(calls, StageFetch)
    /\ stdout' = stdout \o <<MsgExtracting, MsgErrorFetching, MsgFailedExtract>>
    /\ pc' = "fetched"
    /\ UNCHANGED <<url, output, raw, sanitized, soup, removed,
                   content_candidates, main_content, core_content,
                   enhanced_content, output_path, files, exc, fs_error>>

\* main, lines 191-197: the announcement, extract_web_content (request, parse,
\* sanitizing pass) and the check of its result
MainFetch ==
    /\ pc = "start"
    /\ calls' = Append(calls, StageFetch)
    /\ \/ \* requests raises a RequestException (no host, network error,
          \* timeout, status outside 2xx), caught in extract_web_content
          /\ stdout' = stdout \o <<MsgExtracting, MsgErrorFetching, MsgFailedExtract>>
          /\ pc' = "done"
          /\ UNCHANGED <<raw, sanitized, soup, removed>>
       \/ \* the response parses to a tree
          /\ Netloc(url) # <<>>
          /\ \E n \in 0..MaxNodes : \E d \in DepthSeqs(n) :
               \E f \in [1..n -> PipelineKinds] : raw' = Some(TreeOf(f, d))
          /\ sanitized' = Some(Sanitize(raw'.v))
          /\ soup' = Some(Sanitize(raw'.v))
          /\ removed' = Len(raw'.v) - Len(Sanitize(raw'.v))
          /\ stdout' = stdout \o <<MsgExtracting>>
          /\ pc' = "fetched"
    /\ UNCHANGED <<url, output, content_candidates, main_content, core_content,
                   enhanced_content, output_path, files, exc, fs_error>>

\* main, lines 199-202: extract_core_content and the check of its result
MainExtract ==
    /\ pc = "fetched"
    /\ calls' = Append(calls, StageExtract)
    /\ LET r == ExtractCoreContent(soup) IN
         /\ content_candidates' = r.content_candidates
         /\ main_content' = r.main_content
         /\ soup' = r.soup
         /\ core_content' = r.ret
         /\ exc' = r.exc
         /\ IF r.exc # "none"
            THEN pc' = "crashed" /\ stdout' = stdout
            ELSE IF ~TruthyDoc(r.ret)
            THEN pc' = "done" /\ stdout' = Append(stdout, MsgFailedCore)
            ELSE pc' = "extracted" /\ stdout' = stdout
    /\ UNCHANGED <<url, output, raw, sanitized, removed, enhanced_content,
                   output_path, files, fs_error>>

\* main, line 205: enhance_content_preservation, which changes the document
\* it is given and returns it
MainEnhance ==
    /\ pc = "extracted"
    /\ calls' = Append(calls, StageEnhance)
    /\ LET r == EnhanceContentPreservation(core_content) IN
         /\ enhanced_content' = r.ret
         /\ core_content' = IF r.exc = "none" THEN r.ret ELSE core_content
         /\ exc' = r.exc
         /\ pc' = IF r.exc # "none" THEN "crashed" ELSE "enhanced"
    /\ UNCHANGED <<url, output, raw, sanitized, soup, removed,
                   content_candidates, main_content, output_path, stdout,
                   files, fs_error>>

\* main, lines 208-213: save_content_html and the report
MainSave ==
    /\ pc = "enhanced"
    /\ calls' = Append(calls, StageSave)
    /\ \E disk_ok \in BOOLEAN :
         LET r == SaveContentHtml(enhanced_content, url, output, disk_ok) IN
           /\ fs_error' = (TruthyDoc(enhanced_content) /\ ~disk_ok)
           /\ output_path' = r.ret
           /\ files' = files \o r.written
           /\ exc' = r.exc
           /\ IF r.exc # "none"
              THEN pc' = "crashed" /\ stdout' = stdout
              ELSE IF TruthyStr(r.ret)
              THEN pc' = "done" /\ stdout' = Append(stdout, MsgSaved)
              ELSE pc' = "done" /\ stdout' = Append(stdout, MsgFailedSave)
    /\ UNCHANGED <<url, output, raw, sanitized, soup, removed,
                   content_candidates, main_content, core_content,
                   enhanced_content>>

Next == MainFetch \/ MainExtract \/ MainEnhance \/ MainSave

Spec == Init /\ [][Next]_vars

(* ----------------- extract_core_content on any document ---------------- *)

InitExtract ==
    /\ pc = "fetched"
    /\ url = UrlPort
    /\ output = NoneVal
    /\ \E n \in 0..MaxNodes : \E d \in DepthSeqs(n) :
         \E f \in [1..n -> ExtractKinds] : raw = Some(TreeOf(f, d))
    /\ sanitized = raw /\ soup = raw
    /\ removed = 0 /\ content_candidates = <<>> /\ main_content = 0
    /\ core_content = NoneVal /\ enhanced_content = NoneVal
    /\ output_path = NoneVal /\ stdout = <<MsgExtracting>> /\ files = <<>>
    /\ exc = "none" /\ calls = <<StageFetch>> /\ fs_error = FALSE

SpecExtract == InitExtract /\ [][MainExtract]_vars

(* ------------------ the sanitizing pass on any document ---------------- *)

InitSanitize ==
    /\ pc = "parsed"
    /\ url = UrlPort
    /\ output = NoneVal
    /\ \E n \in 0..MaxNodes : \E d \in DepthSeqs(n) :
         \E f \in [1..n -> SanitizeKinds] : raw = Some(TreeOf(f, d))
    /\ soup = raw
    /\ sanitized = NoneVal
    /\ removed = 0 /\ content_candidates = <<>> /\ main_content = 0
    /\ core_content = NoneVal /\ enhanced_content = NoneVal
    /\ output_path = NoneVal /\ stdout = <<>> /\ files = <<>>
    /\ exc = "none" /\ calls = <<>> /\ fs_error = FALSE

\* lines 32-33, run on the tree at hand: the first time on the parsed tree,
\* the second time on its own result
SanitizePass ==
    /\ pc \in {"parsed", "pass1"}
    /\ soup' = Some(Sanitize(soup.v))
    /\ removed' = Len(soup.v) - Len(Sanitize(soup.v))
    /\ sanitized' = IF pc = "parsed" THEN Some(Sanitize(soup.v)) ELSE sanitized
    /\ pc' = IF pc = "parsed" THEN "pass1" ELSE "pass2"
    /\ UNCHANGED <<url, output, raw, content_candidates, main_content,
                   core_content, enhanced_content, output_path, stdout, files,
                   exc, calls, fs_error>>

SpecSanitize == InitSanitize /\ [][SanitizePass]_vars

(* -------------------- save_content_html on any title ------------------- *)

InitSave ==
    /\ pc = "enhanced"
    /\ url \in Urls
    /\ output \in Outputs
    /\ \E d \in SaveDocs : core_content = d /\ enhanced_content = d
    /\ raw = NoneVal /\ sanitized = NoneVal /\ soup = NoneVal
    /\ removed = 0 /\ content_candidates = <<>> /\ main_content = 0
    /\ output_path = NoneVal
    /\ stdout = <<MsgExtracting>> /\ files = <<>>
    /\ exc = "none" /\ calls = <<StageFetch, StageExtract, StageEnhance>>
    /\ fs_error = FALSE

SpecSave == InitSave /\ [][MainSave]_vars

(* ---------------------- notions the properties use --------------------- *)

\* the string holds one of the five keywords, case-insensitively
HasKeyword(str) ==
    LET low == Lower(str) IN \E term \in Terms : Contains(low, term)

\* the element's id, or its class attribute, holds a keyword
AttrHasKeyword(e) == HasKeyword(e.id) \/ HasKeyword(JoinSpace(e.class))

\* the score of an element under the rule "id match 3, class match 2", the
\* two never summed; 0 for an element that is no main, article or div
RuleScore(e) ==
    IF e.tag \notin CandidateTags THEN 0
    ELSE IF HasKeyword(e.id) THEN 3
    ELSE IF HasKeyword(JoinSpace(e.class)) THEN 2
    ELSE 0

\* element i is element k or one of its ancestors
AncestorOrSelf(t, i, k) ==
    \/ i = k
    \/ /\ i < k
       /\ t[i].depth < t[k].depth
       /\ \A m \in (i + 1)..k : t[m].depth > t[i].depth

\* extract_core_content has been called and has ended
Extracted == StageExtract \in Range(calls)

\* the document handed to extract_core_content
Source == sanitized.v

(* ------------------------------ C1 ------------------------------------- *)

\* C1 as stated, in the runs where extract_core_content raises nothing:
\* whenever some element, of any tag, has an id or class holding a keyword, a
\* node is selected and its score is strictly greater than the score of
\* every other element.
C1_AnyTagStrictMax ==
    (/\ Extracted
     /\ exc = "none"
     /\ \E i \in 1..Len(Source) : AttrHasKeyword(Source[i]))
    => /\ main_content # 0
       /\ \A k \in 1..Len(Source) :
            k # main_content
            => RuleScore(Source[k]) < RuleScore(Source[main_content])

\* C1 amended: whenever some main, article or div element has an id or class
\* holding a keyword, extract_core_content raises nothing, returns a document
\* and selects the first element in document order whose score (id match 3,
\* class match 2) is maximal: no element scores more and every earlier
\* element scores less. A non-matching article is never selected then, so a
\* matching div inside it is selected instead of it.
C1_FirstMaxCandidate ==
    (Extracted /\ \E i \in 1..Len(Source) : RuleScore(Source[i]) > 0)
    => /\ exc = "none"
       /\ ~core_content.none
       /\ main_content \in 1..Len(Source)
       /\ \A k \in 1..Len(Source) :
            /\ RuleScore(Source[k]) <= RuleScore(Source[main_content])
            /\ k < main_content
               => RuleScore(Source[k]) < RuleScore(Source[main_content])
       /\ ~(Source[main_content].tag = "article"
            /\ ~AttrHasKeyword(Source[main_content]))

\* C1 witness: the only matching element is a div with id Main-Content inside
\* a non-matching article, and the div is selected.
C1_Witness ==
    /\ pc = "extracted"
    /\ Len(Source) = 2
    /\ Source[1].tag = "article" /\ ~AttrHasKeyword(Source[1])
    /\ Source[2] = AtDepth(DivId, 2)
    /\ main_content = 2

(* ------------------------------ C2 ------------------------------------- *)

EntriesOf(i) ==
    { p \in 1..Len(content_candidates) : content_candidates[p].node = i }

\* C9: an element matching on id and on class has two entries, of score 3
\* and 2, and none of score 5; the sorted list is in descending score with
\* equal scores in document order; the selected node is the first element in
\* document order with the highest score; an element matching both never
\* wins over an earlier element matching on id only.
C9_NotSummedStableFirst ==
    Extracted
    => /\ \A i \in 1..Len(Source) :
            (/\ Source[i].tag \in CandidateTags
             /\ HasKeyword(Source[i].id)
             /\ HasKeyword(JoinSpace(Source[i].class)))
            => /\ Cardinality(EntriesOf(i)) = 2
               /\ { content_candidates[p].score : p \in EntriesOf(i) } = {3, 2}
       /\ \A p \in 1..Len(content_candidates) :
            content_candidates[p].score \in {3, 2}
       /\ \A p, q \in 1..Len(content_candidates) :
            p < q
            => /\ content_candidates[p].score >= content_candidates[q].score
               /\ content_candidates[p].score = content_candidates[q].score
                  => content_candidates[p].node < content_candidates[q].node
       /\ content_candidates # <<>>
          => /\ main_content = content_candidates[1].node
             /\ \A k \in 1..Len(Source) :
                  /\ RuleScore(Source[k]) <= RuleScore(Source[main_content])
                  /\ RuleScore(Source[k]) = RuleScore(Source[main_content])
                     => main_content <= k
       /\ \A i, j \in 1..Len(Source) :
            (/\ i < j
             /\ Source[i].tag \in CandidateTags
             /\ HasKeyword(Source[i].id)
             /\ ~HasKeyword(JoinSpace(Source[i].class))
             /\ Source[j].tag \in CandidateTags
             /\ HasKeyword(Source[j].id)
             /\ HasKeyword(JoinSpace(Source[j].class)))
            => main_content # j

\* C9 witness: an element matching on id only precedes one matching on id
\* and class; the list holds three entries and the earlier element wins.
C9_Witness ==
    /\ pc = "extracted"
    /\ \E i, j \in 1..Len(Source) :
         /\ i < j
         /\ Source[i] = AtDepth(DivId, Source[i].depth)
         /\ Source[j] = AtDepth(DivBoth, Source[j].depth)
         /\ main_content = i
         /\ Len(content_candidates) = 3

(* ------------------------------ C3 ------------------------------------- *)

\* C3 as stated: when the document has neither a keyword-matching main,
\* article or div nor a body, extract_core_content raises nothing and returns
\* None, and main prints "Failed to find core content" and ends with the
\* enhance and save stages not called and no file written.
C3_NoneWithoutRaising ==
    (/\ Extracted
     /\ \A i \in 1..Len(Source) : RuleScore(Source[i]) = 0
     /\ \A i \in 1..Len(Source) : Source[i].tag # "body")
    => /\ exc = "none"
       /\ core_content = NoneVal
       /\ pc = "done"
       /\ Last(stdout) = MsgFailedCore
       /\ calls = <<StageFetch, StageExtract>>
       /\ files = <<>>

(* ------------------------------ C4 ------------------------------------- *)

Stages == <<StageFetch, StageExtract, StageEnhance, StageSave>>

Messages ==
    {MsgExtracting, MsgErrorFetching, MsgFailedExtract, MsgFailedCore,
     MsgSaved, MsgFailedSave}

\* C4: the stages called so far are an initial part of fetch, extract,
\* enhance, save; a stage that returned None is the last stage called, a
\* message was printed and the run is over; after a fetch failure the run
\* ends with no file and exactly the printed lines of the fetch failure; at
\* most one file is written, and only after all four stages were called and
\* the first three returned a document.
C4_StagesInOrder ==
    /\ calls = SubSeq(Stages, 1, Len(calls))
    /\ Range(stdout) \subseteq Messages
    /\ (Len(calls) >= 1 /\ sanitized.none)
       => /\ pc = "done"
          /\ calls = <<StageFetch>>
          /\ stdout = <<MsgExtracting, MsgErrorFetching, MsgFailedExtract>>
          /\ files = <<>>
          /\ exc = "none"
    /\ (Len(calls) >= 2 /\ exc = "none" /\ core_content.none)
       => /\ pc = "done"
          /\ calls = SubSeq(Stages, 1, 2)
          /\ Last(stdout) \in {MsgFailedExtract, MsgFailedCore}
          /\ files = <<>>
    /\ Len(files) <= 1
    /\ files # <<>>
       => /\ calls = Stages
          /\ ~sanitized.none /\ ~core_content.none /\ ~enhanced_content.none
          /\ exc = "none"
          /\ pc = "done"
          /\ Last(stdout) = MsgSaved

\* C4 witness: a fetch of a well-formed URL failed; main has ended after the
\* first stage with the two failure lines printed and nothing written.
C4_Witness ==
    /\ pc = "done"
    /\ url = UrlPort
    /\ sanitized.none
    /\ calls = <<StageFetch>>
    /\ Last(stdout) = MsgFailedExtract
    /\ files = <<>>

(* ------------------------------ C5 ------------------------------------- *)

\* C5 as stated: when the file system fails the write, save_content_html
\* raises nothing and returns None, and main prints "Failed to save content"
\* and returns normally.
C5_WriteFailureReturnsNone ==
    fs_error
    => /\ exc = "none"
       /\ output_path = NoneVal
       /\ pc = "done"
       /\ Last(stdout) = MsgFailedSave

(* ------------------------------ C6 ------------------------------------- *)

\* the number of elements of t with the tag
CountTag(t, tag) == Cardinality({ i \in 1..Len(t) : t[i].tag = tag })

\* the children of element p
Children(t, p) ==
    { k \in 1..Len(t) :
        AncestorOrSelf(t, p, k) /\ t[k].depth = t[p].depth + 1 }

\* C6 as stated: the document handed to the save stage has exactly one head,
\* which holds the charset meta tag and exactly one style element, and
\* exactly one body, whose only child is the root of the extracted subtree.
C6_OneHeadOneBody ==
    (pc = "enhanced")
    => LET d == enhanced_content.v
           h == Find(d, "head")
           b == Find(d, "body")
       IN  /\ ~enhanced_content.none
           /\ CountTag(d, "head") = 1
           /\ CountTag(d, "body") = 1
           /\ CountTag(d, "style") = 1
           /\ \E k \in Children(d, h) :
                d[k].tag = "meta" /\ d[k].charset = <<"u","t","f","-","8">>
           /\ \E k \in Children(d, h) : d[k].tag = "style"
           /\ Cardinality(Children(d, b)) = 1
           /\ \A k \in Children(d, b) :
                d[k] = AtDepth(Source[main_content], d[b].depth + 1)

(* ------------------------------ C10 ------------------------------------ *)

\* a.b_80.html, the name made from the host part of http://a.b:80/x
NameFromHost == <<"a","_","b","_","8","0">> \o DotHtml

\* element i of the source has a title element in its subtree
TitleBelow(t, i) ==
    \E k \in 1..Len(t) : AncestorOrSelf(t, i, k) /\ t[k].tag = "title"

Survives(t, k) ==
    \A i \in 1..k : AncestorOrSelf(t, i, k) => t[i].tag \notin RemovableTags

\* the elements of t that satisfy Survives, in order
RECURSIVE Survivors(_, _)
Survivors(t, k) ==
    IF k > Len(t) THEN <<>>
    ELSE (IF Survives(t, k) THEN <<t[k]>> ELSE <<>>) \o Survivors(t, k + 1)

\* C7: after the sanitizing pass no script, style, iframe, nav, footer or
\* aside element is left, the tree is exactly the elements of the parsed tree
\* that were not in a removed subtree, unchanged and in order, and a second
\* pass removes nothing and leaves the tree as it is.
C7_SanitizeComplete ==
    /\ pc \in {"pass1", "pass2"}
       => /\ \A k \in 1..Len(sanitized.v) :
               sanitized.v[k].tag \notin RemovableTags
          /\ sanitized.v = Survivors(raw.v, 1)
    /\ pc = "pass1"
       => /\ soup = sanitized
          /\ removed = Len(raw.v) - Len(sanitized.v)
    /\ pc = "pass2"
       => /\ soup = sanitized
          /\ removed = 0

\* C7 witness: a script inside a nav, next to a kept element; both passes
\* have run and only the kept element is left.
C7_Witness ==
    /\ pc = "pass2"
    /\ Len(raw.v) = 3
    /\ raw.v[1].tag = "nav" /\ raw.v[2].tag = "script" /\ raw.v[2].depth = 2
    /\ raw.v[3].tag = "p"
    /\ Len(soup.v) = 1

(* ------------------------------ C8 ------------------------------------- *)

\* the characters of [A-Za-z0-9 _-]
AsciiSafe == UpperSet \cup LowerSet \cup Digits \cup {" ", "_", "-"}

\* name is title with every character outside keep replaced by an
\* underscore, cut to 50 characters, followed by .html
IsNameOf(name, title, keep) ==
    /\ Len(name) = Min(Len(title), 50) + 5
    /\ SubSeq(name, Len(name) - 4, Len(name)) = DotHtml
    /\ \A i \in 1..(Len(name) - 5) :
         name[i] = IF title[i] \in keep THEN title[i] ELSE "_"

\* the title save_content_html starts from for the document at hand
DerivedTitle == DeriveTitle(enhanced_content.v, url)

\* Hello_ World___script_
NameHello == <<"H","e","l","l","o","_"," ","W","o","r","l","d","_","_","_",
               "s","c","r","i","p","t","_">>

\* C8 as stated, for a run without -o: the file written is named by the
\* derived title with every character outside [A-Za-z0-9 _-] replaced by an
\* underscore, cut to 50 characters, plus .html.
C8_AsciiOnly ==
    (pc = "done" /\ files # <<>> /\ output = NoneVal)
    => IsNameOf(files[1].path, DerivedTitle, AsciiSafe)

\* C8 amended: the characters kept are those for which str.isalnum() is true
\* (letters and digits of any script, so e-acute is kept), space, hyphen and
\* underscore; the derived name is used when -o is absent or empty, and a
\* non-empty -o path is used as it is; the title Hello: World!/<script>
\* gives Hello_ World___script_.html.
C8_UnicodeAlnum ==
    (pc = "done" /\ files # <<>>)
    => /\ output_path = Some(files[1].path)
       /\ IF output = NoneVal \/ output.v = <<>>
          THEN IsNameOf(files[1].path, DerivedTitle, AsciiSafe \cup UnicodeAlnum)
          ELSE files[1].path = output.v
       /\ (DerivedTitle = TitleHello /\ output = NoneVal)
          => files[1].path = NameHello \o DotHtml

\* C8 witness: the title Hello: World!/<script>, no -o, the file written as
\* Hello_ World___script_.html.
C8_Witness ==
    /\ pc = "done"
    /\ output = NoneVal
    /\ DerivedTitle = TitleHello
    /\ files # <<>>
    /\ files[1].path = NameHello \o DotHtml

====
